---- MODULE Spec2Model ----
(***************************************************************************)
(* Model of parse_document() of generate_website.py: the walk over the     *)
(* paragraphs of the deals document that rebuilds the catalog of stack     *)
(* deals (triple, double) and flat deals (bogo, digital coupons).          *)
(*                                                                         *)
(* A text is a sequence of characters, each character a string.  The three *)
(* non-ASCII characters the parser looks at are written as the tokens      *)
(* EnDash (U+2013), Bullet (U+2022) and EmDash (U+2014).                   *)
(* A stack deal is a Python dict, an object with identity: the model keeps *)
(* the deals in a heap (a sequence, in creation order) and the catalog's   *)
(* lists and current_deal hold references (indices into the heap).         *)
(*                                                                         *)
(* Three specifications.  In Spec the document is left open: the reader    *)
(* yields any paragraph of Paragraphs at each turn of the loop, up to      *)
(* MaxParas paragraphs (doc stays empty).  In DocSpec the document is      *)
(* chosen at the start among Docs and doc.paragraphs is read in order.     *)
(* Both start inside parse_document, called by main.  MainSpec is main()   *)
(* from its first line: the test for the document, the parse of a document *)
(* of Docs, generate_html on the catalog, and the three output files.      *)
(***************************************************************************)
EXTENDS Integers, Sequences, FiniteSets, TLC

VARIABLES doc, pc, nread, text, content, heap,
          current_section, current_category, current_deal, current_field,
          docx_exists, main_pc, html, io

\* the state of main(): whether DOCX_PATH exists, the position in main, the
\* value of its local html, and the file operations done so far, in order
mainvars == <<docx_exists, main_pc, html, io>>

vars == <<doc, pc, nread, text, content, heap,
          current_section, current_category, current_deal, current_field,
          docx_exists, main_pc, html, io>>

(***************************************************************************)
(* Bounds of the model.                                                    *)
(***************************************************************************)
MaxParas == 5

(***************************************************************************)
(* Characters and literals of the source.                                  *)
(***************************************************************************)
EnDash == "EN"
Bullet == "BU"
EmDash == "EM"

TRIPLE_STACKS == <<"T","R","I","P","L","E"," ","S","T","A","C","K","S">>
DOUBLE_STACKS == <<"D","O","U","B","L","E"," ","S","T","A","C","K","S">>
BOGO_DEALS == <<"B","O","G","O"," ","D","E","A","L","S">>
DIGITAL_COUPONS == <<"D","I","G","I","T","A","L"," ","C","O","U","P","O","N","S">>
LabelSale == <<"S","a","l","e",":">>
LabelCoupon == <<"D","i","g","i","t","a","l"," ","C","o","u","p","o","n">>
LabelBuy == <<"B","u","y",":">>
LabelWhy == <<"W","h","y"," ","t","h","i","s"," ","w","o","r","k","s",":">>
KwSave == <<"S","a","v","e">>
KwBuy == <<"B","u","y">>
KwFree == <<"F","r","e","e">>

CategoryMaxLen == 50

\* The characters str.strip() removes (those that occur in the model).
Whitespace == {" ", "\t", "\n"}

\* The character sets handed to str.lstrip().
StackMarkerChars == {"-", EnDash, Bullet, " "}
FlatMarkerChars == {"-", " "}

\* The sentinels that keep a line from being a category header.
Sentinels == {<<"$">>, <<EmDash>>, KwSave, KwBuy, KwFree}

StackSections == {"triple_stacks", "double_stacks"}
FlatSections == {"bogo_deals", "digital_coupons"}

\* Python's None for current_deal (a reference) and for current_category
\* (a str; the empty str is falsy like None and is never a stripped text).
NoDeal == 0
NoCategory == <<>>

(***************************************************************************)
(* str methods.                                                            *)
(***************************************************************************)
LowerLetters == <<"a","b","c","d","e","f","g","h","i","j","k","l","m",
                  "n","o","p","q","r","s","t","u","v","w","x","y","z">>
UpperLetters == <<"A","B","C","D","E","F","G","H","I","J","K","L","M",
                  "N","O","P","Q","R","S","T","U","V","W","X","Y","Z">>

\* str.upper() on one character (the ASCII letters).
ToUpper ==
    [c \in {LowerLetters[i] : i \in 1..26} |->
        UpperLetters[CHOOSE i \in 1..26 : LowerLetters[i] = c]]

UpperChar(c) == IF c \in DOMAIN ToUpper THEN ToUpper[c] ELSE c

Upper(t) == [i \in 1..Len(t) |-> UpperChar(t[i])]

StartsWith(t, p) == Len(t) >= Len(p) /\ SubSeq(t, 1, Len(p)) = p

EndsWith(t, p) ==
    Len(t) >= Len(p) /\ SubSeq(t, Len(t) - Len(p) + 1, Len(t)) = p

Contains(t, p) ==
    \E i \in 1..(Len(t) - Len(p) + 1) : SubSeq(t, i, i + Len(p) - 1) = p

RECURSIVE LStrip(_, _)
LStrip(t, chars) ==
    IF t # <<>> /\ Head(t) \in chars THEN LStrip(Tail(t), chars) ELSE t

RECURSIVE RStrip(_, _)
RStrip(t, chars) ==
    IF t # <<>> /\ t[Len(t)] \in chars
    THEN RStrip(SubSeq(t, 1, Len(t) - 1), chars)
    ELSE t

Strip(t) == RStrip(LStrip(t, Whitespace), Whitespace)

(***************************************************************************)
(* dict of str -> list, in insertion order: a sequence of [k, v] entries.  *)
(***************************************************************************)
HasKey(d, key) == \E i \in 1..Len(d) : d[i].k = key

\* d[key] = value
SetItem(d, key, value) ==
    IF HasKey(d, key)
    THEN [i \in 1..Len(d) |-> IF d[i].k = key THEN [k |-> key, v |-> value] ELSE d[i]]
    ELSE Append(d, [k |-> key, v |-> value])

\* d[key].append(item), for a key that is present
AppendItem(d, key, item) ==
    [i \in 1..Len(d) |-> IF d[i].k = key
                          THEN [k |-> key, v |-> Append(d[i].v, item)]
                          ELSE d[i]]

(***************************************************************************)
(* The paragraphs the document reader may yield (para.text, not stripped). *)
(***************************************************************************)
ParaTriple == <<"T","R","I","P","L","E"," ","S","T","A","C","K","S">>
ParaDouble == <<"D","o","u","b","l","e"," ","S","t","a","c","k","s">>
ParaBogo == <<"B","O","G","O"," ","D","E","A","L","S">>
ParaCoupons == <<"D","I","G","I","T","A","L"," ","C","O","U","P","O","N","S">>
ParaCouponLabel == <<"D","i","g","i","t","a","l"," ","C","o","u","p","o","n","s",":">>
ParaSale == <<"S","a","l","e",":"," ">>
ParaBuy == <<"B","u","y",":">>
ParaWhy == <<"W","h","y"," ","t","h","i","s"," ","w","o","r","k","s",":">>
ParaHyphenItem == <<"-"," ","M","i","l","k"," ","$","2">>
ParaEnDashItem == <<EnDash," ","E","g","g","s">>
ParaBulletItem == <<Bullet," ","T","e","a">>
ParaDealA == <<"D","e","a","l"," ","A">>
ParaSnacks == <<" ","S","n","a","c","k","s">>
ParaBlank == <<" "," ">>

Paragraphs ==
    {ParaTriple, ParaDouble, ParaBogo, ParaCoupons, ParaCouponLabel,
     ParaSale, ParaBuy, ParaWhy, ParaHyphenItem, ParaEnDashItem,
     ParaBulletItem, ParaDealA, ParaSnacks, ParaBlank}

(***************************************************************************)
(* Initial state: the locals of parse_document before the loop.            *)
(***************************************************************************)
InitLocals ==
    /\ pc = "loop"
    /\ nread = 0
    /\ text = <<>>
    /\ content = [triple_stacks |-> <<>>, double_stacks |-> <<>>,
                  bogo_deals |-> <<>>, digital_coupons |-> <<>>]
    /\ heap = <<>>
    /\ current_section = "None"
    /\ current_category = NoCategory
    /\ current_deal = NoDeal
    /\ current_field = "None"

\* The local html of main before generate_html has returned.
NoHtml == [rendered |-> FALSE, bogo_rows |-> <<>>, coupon_rows |-> <<>>]

\* The file operations of main and of parse_document.
ReadDocx == "read Publix_Final.docx"
WriteHtmlFile == "write index.html"
WriteCssFile == "write styles.css"
WriteJsFile == "write script.js"

\* main has found the document and called parse_document, which has opened it.
InParse ==
    /\ docx_exists = TRUE
    /\ main_pc = "parse"
    /\ html = NoHtml
    /\ io = <<ReadDocx>>

Init == doc = <<>> /\ InitLocals /\ InParse

(***************************************************************************)
(* The branch of the loop body a stripped text takes, in the order the     *)
(* code tests them (first match wins).                                     *)
(***************************************************************************)
IsListItem(t) ==
    \/ StartsWith(t, <<"-">>)
    \/ StartsWith(t, <<EnDash>>)
    \/ StartsWith(t, <<Bullet>>)
    \/ StartsWith(t, <<" ">>)

IsCategoryHeader(t) ==
    /\ ~StartsWith(t, <<"-">>)
    /\ Len(t) < CategoryMaxLen
    /\ ~\E c \in Sentinels : Contains(t, c)


\* StackBranch whose last branch does not test `current_field != 'why'`.
StackBranchNameAnyField(t) ==
    IF t = LabelSale THEN "sale"
    ELSE IF StartsWith(t, LabelCoupon) THEN "coupons"
    ELSE IF t = LabelBuy THEN "buy"
    ELSE IF t = LabelWhy THEN "why"
    ELSE IF IsListItem(t) /\ current_deal # NoDeal /\ current_field # "None"
         THEN "item"
    ELSE IF current_field = "why" /\ current_deal # NoDeal /\ ~StartsWith(t, <<"-">>)
         THEN "why_text"
    ELSE IF ~StartsWith(t, <<"-">>) THEN "new_deal"
    ELSE "ignored"

StackBranch(t) ==
    IF t = LabelSale THEN "sale"
    ELSE IF StartsWith(t, LabelCoupon) THEN "coupons"
    ELSE IF t = LabelBuy THEN "buy"
    ELSE IF t = LabelWhy THEN "why"
    ELSE IF IsListItem(t) /\ current_deal # NoDeal /\ current_field # "None"
         THEN "item"
    ELSE IF current_field = "why" /\ current_deal # NoDeal /\ ~StartsWith(t, <<"-">>)
         THEN "why_text"
    ELSE IF ~StartsWith(t, <<"-">>) /\ current_field # "why" THEN "new_deal"
    ELSE "ignored"


\* FlatBranch with the `and current_category` test of the item branch left out.
FlatBranchAnyCategory(t) ==
    IF IsCategoryHeader(t) THEN "category"
    ELSE IF StartsWith(t, <<"-">>) THEN "flat_item"
    ELSE "ignored"

FlatBranch(t) ==
    IF IsCategoryHeader(t) THEN "category"
    ELSE IF StartsWith(t, <<"-">>) /\ current_category # NoCategory THEN "flat_item"
    ELSE "ignored"


\* Branch without `if not text: continue`.
BranchNoBlankSkip(t) ==
    LET upper == Upper(t) IN
    IF Contains(upper, TRIPLE_STACKS) THEN "TRIPLE STACKS"
    ELSE IF Contains(upper, DOUBLE_STACKS) THEN "DOUBLE STACKS"
    ELSE IF Contains(upper, BOGO_DEALS) THEN "BOGO DEALS"
    ELSE IF Contains(upper, DIGITAL_COUPONS) /\ ~EndsWith(t, <<":">>)
         THEN "DIGITAL COUPONS"
    ELSE IF current_section \in StackSections THEN StackBranch(t)
    ELSE IF current_section \in FlatSections THEN FlatBranch(t)
    ELSE "ignored"

\* Branch testing DOUBLE STACKS before TRIPLE STACKS.
BranchDoubleFirst(t) ==
    LET upper == Upper(t) IN
    IF t = <<>> THEN "blank"
    ELSE IF Contains(upper, DOUBLE_STACKS) THEN "DOUBLE STACKS"
    ELSE IF Contains(upper, TRIPLE_STACKS) THEN "TRIPLE STACKS"
    ELSE IF Contains(upper, BOGO_DEALS) THEN "BOGO DEALS"
    ELSE IF Contains(upper, DIGITAL_COUPONS) /\ ~EndsWith(t, <<":">>)
         THEN "DIGITAL COUPONS"
    ELSE IF current_section \in StackSections THEN StackBranch(t)
    ELSE IF current_section \in FlatSections THEN FlatBranch(t)
    ELSE "ignored"

\* Branch without the `not text.endswith(':')` test of DIGITAL COUPONS.
BranchCouponsAnySuffix(t) ==
    LET upper == Upper(t) IN
    IF t = <<>> THEN "blank"
    ELSE IF Contains(upper, TRIPLE_STACKS) THEN "TRIPLE STACKS"
    ELSE IF Contains(upper, DOUBLE_STACKS) THEN "DOUBLE STACKS"
    ELSE IF Contains(upper, BOGO_DEALS) THEN "BOGO DEALS"
    ELSE IF Contains(upper, DIGITAL_COUPONS) THEN "DIGITAL COUPONS"
    ELSE IF current_section \in StackSections THEN StackBranch(t)
    ELSE IF current_section \in FlatSections THEN FlatBranch(t)
    ELSE "ignored"

Branch(t) ==
    LET upper == Upper(t) IN
    IF t = <<>> THEN "blank"
    ELSE IF Contains(upper, TRIPLE_STACKS) THEN "TRIPLE STACKS"
    ELSE IF Contains(upper, DOUBLE_STACKS) THEN "DOUBLE STACKS"
    ELSE IF Contains(upper, BOGO_DEALS) THEN "BOGO DEALS"
    ELSE IF Contains(upper, DIGITAL_COUPONS) /\ ~EndsWith(t, <<":">>)
         THEN "DIGITAL COUPONS"
    ELSE IF current_section \in StackSections THEN StackBranch(t)
    ELSE IF current_section \in FlatSections THEN FlatBranch(t)
    ELSE "ignored"

(***************************************************************************)
(* The loop over doc.paragraphs.  pc = "loop": at the head of the loop,    *)
(* the reader yields the next paragraph or is exhausted; pc = "body": text *)
(* holds the stripped paragraph and the body of the loop runs on it.       *)
(***************************************************************************)
ReadParagraph(p) ==
    /\ pc = "loop"
    /\ nread' = nread + 1
    /\ text' = Strip(p)
    /\ pc' = "body"
    /\ UNCHANGED <<doc, content, heap, current_section, current_category,
                   current_deal, current_field>>
    /\ UNCHANGED mainvars

\* the open document: any paragraph may come next
NextParagraph(p) == nread < MaxParas /\ ReadParagraph(p)

\* the chosen document: its next paragraph
NextOfDoc == nread < Len(doc) /\ ReadParagraph(doc[nread + 1])

\* The body takes one of the branches and goes back to the head of the loop.
Body(branches) ==
    /\ pc = "body"
    /\ Branch(text) \in branches
    /\ pc' = "loop"
    /\ UNCHANGED <<doc, nread, text>>
    /\ UNCHANGED mainvars

\* if not text: continue
Blank ==
    /\ Body({"blank"})
    /\ UNCHANGED <<content, heap, current_section, current_category,
                   current_deal, current_field>>


\* FlushDeal without `current_deal = None`.
FlushDealKeepCurrent ==
    IF current_deal # NoDeal /\ current_section \in StackSections
    THEN /\ content' = [content EXCEPT ![current_section] = Append(@, current_deal)]
         /\ UNCHANGED current_deal
    ELSE UNCHANGED <<content, current_deal>>

\* The flush of the three first section branches.
FlushDeal ==
    IF current_deal # NoDeal /\ current_section \in StackSections
    THEN /\ content' = [content EXCEPT ![current_section] = Append(@, current_deal)]
         /\ current_deal' = NoDeal
    ELSE UNCHANGED <<content, current_deal>>

SwitchTriple ==
    /\ Body({"TRIPLE STACKS"})
    /\ FlushDeal
    /\ current_section' = "triple_stacks"
    /\ current_field' = "None"
    /\ UNCHANGED <<heap, current_category>>

SwitchDouble ==
    /\ Body({"DOUBLE STACKS"})
    /\ FlushDeal
    /\ current_section' = "double_stacks"
    /\ current_field' = "None"
    /\ UNCHANGED <<heap, current_category>>

SwitchBogo ==
    /\ Body({"BOGO DEALS"})
    /\ FlushDeal
    /\ current_section' = "bogo_deals"
    /\ current_field' = "None"
    /\ UNCHANGED <<heap, current_category>>

\* SwitchCoupons without `current_field = None`.
SwitchCouponsKeepsField ==
    /\ Body({"DIGITAL COUPONS"})
    /\ current_section' = "digital_coupons"
    /\ UNCHANGED <<content, heap, current_category, current_deal, current_field>>

SwitchCoupons ==
    /\ Body({"DIGITAL COUPONS"})
    /\ current_section' = "digital_coupons"
    /\ current_field' = "None"
    /\ UNCHANGED <<content, heap, current_category, current_deal>>

\* FieldLabel closing the deal in progress, as a section header does.
FieldLabelFlushes ==
    /\ Body({"sale", "coupons", "buy", "why"})
    /\ current_field' = StackBranch(text)
    /\ FlushDeal
    /\ UNCHANGED <<heap, current_section, current_category>>

\* 'Sale:', 'Digital Coupon...', 'Buy:', 'Why this works:'
FieldLabel ==
    /\ Body({"sale", "coupons", "buy", "why"})
    /\ current_field' = StackBranch(text)
    /\ UNCHANGED <<content, heap, current_section, current_category, current_deal>>


\* StackItemText without the lstrip of the marker.
StackItemTextKeepMarker(t) == Strip(t)

StackItemText(t) == Strip(LStrip(t, StackMarkerChars))

\* ListItem clearing the focus after an item under 'why', as WhyText does.
ListItemClearsFocus ==
    /\ Body({"item"})
    /\ LET item == StackItemText(text) IN
         IF current_field = "why"
         THEN /\ heap' = [heap EXCEPT ![current_deal]["why"] = item]
              /\ current_field' = "None"
         ELSE /\ heap' = [heap EXCEPT ![current_deal][current_field] = Append(@, item)]
              /\ UNCHANGED current_field
    /\ UNCHANGED <<content, current_section, current_category, current_deal>>

ListItem ==
    /\ Body({"item"})
    /\ LET item == StackItemText(text) IN
         IF current_field = "why"
         THEN heap' = [heap EXCEPT ![current_deal]["why"] = item]
         ELSE heap' = [heap EXCEPT ![current_deal][current_field] = Append(@, item)]
    /\ UNCHANGED <<content, current_section, current_category,
                   current_deal, current_field>>

WhyText ==
    /\ Body({"why_text"})
    /\ heap' = [heap EXCEPT ![current_deal]["why"] = text]
    /\ current_field' = "None"
    /\ UNCHANGED <<content, current_section, current_category, current_deal>>

NewStackDeal(t) ==
    [name |-> t, sale |-> <<>>, coupons |-> <<>>, buy |-> <<>>, why |-> <<>>]



\* NewDeal appending the deal it creates at once, not the one it replaces.
NewDealAppendsNew ==
    /\ Body({"new_deal"})
    /\ content' = [content EXCEPT ![current_section] = Append(@, Len(heap) + 1)]
    /\ heap' = Append(heap, NewStackDeal(text))
    /\ current_deal' = Len(heap) + 1
    /\ current_field' = "None"
    /\ UNCHANGED <<current_section, current_category>>

\* NewDeal without the flush of the deal in progress.
NewDealNoFlush ==
    /\ Body({"new_deal"})
    /\ heap' = Append(heap, NewStackDeal(text))
    /\ current_deal' = Len(heap) + 1
    /\ current_field' = "None"
    /\ UNCHANGED <<content, current_section, current_category>>

\* NewDeal putting the flushed deal at the front of the list (insert(0, ...)).
NewDealFlushInFront ==
    /\ Body({"new_deal"})
    /\ IF current_deal # NoDeal
       THEN content' = [content EXCEPT ![current_section] = <<current_deal>> \o @]
       ELSE UNCHANGED content
    /\ heap' = Append(heap, NewStackDeal(text))
    /\ current_deal' = Len(heap) + 1
    /\ current_field' = "None"
    /\ UNCHANGED <<current_section, current_category>>

NewDeal ==
    /\ Body({"new_deal"})
    /\ IF current_deal # NoDeal
       THEN content' = [content EXCEPT ![current_section] = Append(@, current_deal)]
       ELSE UNCHANGED content
    /\ heap' = Append(heap, NewStackDeal(text))
    /\ current_deal' = Len(heap) + 1
    /\ current_field' = "None"
    /\ UNCHANGED <<current_section, current_category>>



\* CategoryHeader that only selects the category (no registration).
CategoryHeaderNoRegister ==
    /\ Body({"category"})
    /\ current_category' = text
    /\ UNCHANGED <<content, heap, current_section, current_deal, current_field>>

\* CategoryHeader without the `not in` test: the list is reset on every header.
CategoryHeaderAlwaysReset ==
    /\ Body({"category"})
    /\ current_category' = text
    /\ content' = [content EXCEPT ![current_section] = SetItem(@, text, <<>>)]
    /\ UNCHANGED <<heap, current_section, current_deal, current_field>>

CategoryHeader ==
    /\ Body({"category"})
    /\ current_category' = text
    /\ IF ~HasKey(content[current_section], text)
       THEN content' = [content EXCEPT ![current_section] = SetItem(@, text, <<>>)]
       ELSE UNCHANGED content
    /\ UNCHANGED <<heap, current_section, current_deal, current_field>>


\* FlatItemText without the lstrip of the marker.
FlatItemTextKeepMarker(t) == Strip(t)

FlatItemText(t) == Strip(LStrip(t, FlatMarkerChars))

\* content[current_section][current_category].append(item), the key present
FlatItem ==
    /\ Body({"flat_item"})
    /\ HasKey(content[current_section], current_category)
    /\ content' = [content EXCEPT ![current_section] =
                       AppendItem(@, current_category, FlatItemText(text))]
    /\ UNCHANGED <<heap, current_section, current_category,
                   current_deal, current_field>>

\* the same statement when the key is absent: the subscript raises KeyError,
\* which nothing in parse_document catches
FlatItemKeyError ==
    /\ pc = "body"
    /\ Branch(text) = "flat_item"
    /\ ~HasKey(content[current_section], current_category)
    /\ pc' = "raised"
    /\ UNCHANGED <<doc, nread, text, content, heap, current_section,
                   current_category, current_deal, current_field>>
    /\ UNCHANGED mainvars

\* no branch of the active section matches, or no section is active
Ignored ==
    /\ Body({"ignored"})
    /\ UNCHANGED <<content, heap, current_section, current_category,
                   current_deal, current_field>>


\* EndOfInput without the last flush.
EndOfInputNoFlush ==
    /\ pc = "loop"
    /\ pc' = "done"
    /\ UNCHANGED <<doc, nread, text, content, heap, current_section,
                   current_category, current_deal, current_field>>
    /\ UNCHANGED mainvars

\* After the loop: the last flush and `return content`.
EndOfInput ==
    /\ pc = "loop"
    /\ pc' = "done"
    /\ IF current_deal # NoDeal /\ current_section \in StackSections
       THEN content' = [content EXCEPT ![current_section] = Append(@, current_deal)]
       ELSE UNCHANGED content
    /\ UNCHANGED <<doc, nread, text, heap, current_section, current_category,
                   current_deal, current_field>>
    /\ UNCHANGED mainvars

Next ==
    \/ \E p \in Paragraphs : NextParagraph(p)
    \/ Blank
    \/ SwitchTriple
    \/ SwitchDouble
    \/ SwitchBogo
    \/ SwitchCoupons
    \/ FieldLabel
    \/ ListItem
    \/ WhyText
    \/ NewDeal
    \/ CategoryHeader
    \/ FlatItem
    \/ FlatItemKeyError
    \/ Ignored
    \/ EndOfInput

Spec == Init /\ [][Next]_vars

(***************************************************************************)
(* DocSpec: the document is chosen at the start and read to its end.       *)
(* Docs holds documents of three shapes (one stack deal with labelled      *)
(* fields, a run of name-lines, one flat section with one or two           *)
(* categories) and a few others that take the remaining branches.          *)
(***************************************************************************)
MaxItems == 2
MaxNames == 3

TextCerealCombo == <<"C","e","r","e","a","l"," ","C","o","m","b","o">>
TextCereal2 == <<"C","e","r","e","a","l"," ","$","2">>
Text2Cereal == <<"2"," ","C","e","r","e","a","l">>
TextMilk2 == <<"M","i","l","k"," ","$","2">>
TextStacksWithCoupon == <<"S","t","a","c","k","s"," ","w","i","t","h"," ","c","o","u","p","o","n">>
TextDealA == <<"D","e","a","l"," ","A">>
TextDealB == <<"D","e","a","l"," ","B">>
TextSnacks == <<"S","n","a","c","k","s">>
TextDairy == <<"D","a","i","r","y">>
TextTea == <<"T","e","a">>
TextChips ==
    <<"C","h","i","p","s"," ",EmDash," ","B","u","y"," ","1"," ","G","e","t"," ",
      "1"," ","F","r","e","e"," ",EmDash," ","S","a","v","e"," ","$","3",".","0",
      "0"," ",EmDash," ","V","a","l","i","d"," ","1","/","1","-","1","/","7">>

\* The runs of at most MaxItems consecutive items of a pool, and no item.
Runs(pool) ==
    {<<>>} \cup {r \in {SubSeq(pool, i, j) : i \in 1..Len(pool), j \in 1..Len(pool)} :
                    Len(r) <= MaxItems}

ItemLists == Runs(<<TextCereal2, Text2Cereal, TextMilk2>>)
RawLists == Runs(<<TextChips, TextMilk2, TextTea>>)

HeaderOf(section) ==
    CASE section = "triple_stacks" -> ParaTriple
      [] section = "double_stacks" -> ParaDouble
      [] section = "bogo_deals" -> ParaBogo
      [] section = "digital_coupons" -> ParaCoupons

\* each item written as a hyphen-marked line
HyphenLines(items) == [i \in 1..Len(items) |-> <<"-", " ">> \o items[i]]

\* a field label and its items; nothing at all for a field without items
Labelled(label, items) ==
    IF items = <<>> THEN <<>> ELSE <<label>> \o HyphenLines(items)

StackShapes ==
    [section : StackSections, name : {TextCerealCombo},
     sale : ItemLists, coupons : ItemLists, buy : ItemLists,
     why : {TextStacksWithCoupon}]

StackDoc(s) ==
    <<HeaderOf(s.section), s.name>>
        \o Labelled(LabelSale, s.sale)
        \o Labelled(ParaCouponLabel, s.coupons)
        \o Labelled(LabelBuy, s.buy)
        \o <<LabelWhy, s.why>>

RECURSIVE SeqsUpTo(_, _)
SeqsUpTo(S, n) ==
    IF n = 0 THEN {<<>>}
    ELSE SeqsUpTo(S, n - 1)
         \cup {Append(q, x) : q \in {r \in SeqsUpTo(S, n - 1) : Len(r) = n - 1}, x \in S}

NameShapes ==
    [section : StackSections,
     names : {q \in SeqsUpTo({TextDealA, TextDealB}, MaxNames) : q # <<>>}]

NameDoc(s) == <<HeaderOf(s.section)>> \o s.names

FlatShapes ==
    [section : FlatSections, snacks : RawLists, two : BOOLEAN, dairy : RawLists]

FlatDoc(s) ==
    <<HeaderOf(s.section), TextSnacks>> \o HyphenLines(s.snacks)
        \o (IF s.two THEN <<TextDairy>> \o HyphenLines(s.dairy) ELSE <<>>)

\* The scenarios, paragraph by paragraph.
ScenarioA ==
    <<TRIPLE_STACKS, TextCerealCombo, LabelSale, <<"-", " ">> \o TextCereal2,
      LabelBuy, <<"-", " ">> \o Text2Cereal, LabelWhy, TextStacksWithCoupon>>
ScenarioB == <<BOGO_DEALS, TextSnacks, <<"-", " ">> \o TextChips>>
ScenarioC == <<TRIPLE_STACKS, TextDealA, TextDealB>>

\* Documents that bring the parser into a state (a section or none, a deal
\* in progress or not, a field label or none, an item or not, a switch to
\* Coupons or not) and then hold a line with a section token.
TextBogoDouble ==
    <<"B","o","g","o"," ","D","e","a","l","s",","," ",
      "D","o","u","b","l","e"," ","S","t","a","c","k","s">>
TextDoubleTriple ==
    <<"D","o","u","b","l","e"," ","S","t","a","c","k","s",","," ",
      "T","r","i","p","l","e"," ","S","t","a","c","k","s">>
TextHyphenBogo == <<"-"," ","B","o","g","o"," ","D","e","a","l","s">>

TokenLines ==
    {ParaTriple, ParaDouble, ParaBogo, TextBogoDouble, TextDoubleTriple,
     TextHyphenBogo}

PrefixShapes ==
    [section : {"None"} \cup StackSections \cup FlatSections,
     name : BOOLEAN,
     label : {<<>>, LabelSale, ParaCouponLabel, LabelBuy, LabelWhy},
     item : BOOLEAN,
     coupons : BOOLEAN]

PrefixDoc(s) ==
    (IF s.section = "None" THEN <<>> ELSE <<HeaderOf(s.section)>>)
        \o (IF s.name THEN <<TextDealA>> ELSE <<>>)
        \o (IF s.label = <<>> THEN <<>> ELSE <<s.label>>)
        \o (IF s.item THEN <<ParaHyphenItem>> ELSE <<>>)
        \o (IF s.coupons THEN <<ParaCoupons>> ELSE <<>>)

SwitchDocs == {Append(PrefixDoc(s), h) : s \in PrefixShapes, h \in TokenLines}

\* A deal whose rationale is written as an unmarked line, as a hyphen line
\* or as a bullet line, followed by the name-line of the next deal.
RationaleDocs ==
    {<<ParaTriple, TextDealA, LabelWhy, w, TextDealB>> :
        w \in {TextStacksWithCoupon, ParaHyphenItem, ParaBulletItem}}

\* One flat section with one category and one item holding one em-dash, two
\* em-dashes without blanks around them, a leading or a trailing em-dash.
TextSodaSave == <<"S","o","d","a"," ",EmDash," ","S","a","v","e"," ","$","1">>
TextSodaBuySave ==
    <<"S","o","d","a",EmDash,"B","u","y"," ","2",EmDash,"S","a","v","e"," ","$","1">>
TextDashFree == <<EmDash," ","F","r","e","e">>
TextTeaDash == <<"T","e","a"," ",EmDash>>

RenderDocs ==
    {<<HeaderOf(s), TextSnacks, <<"-", " ">> \o item>> :
        s \in FlatSections,
        item \in {TextSodaSave, TextSodaBuySave, TextDashFree, TextTeaDash}}

OtherDocs ==
    {<<ParaBlank, ParaDealA, ParaBogo, ParaSnacks, ParaCoupons, ParaHyphenItem>>,
     <<ParaTriple, ParaEnDashItem, ParaSale, ParaBulletItem, ParaWhy, ParaHyphenItem>>}

Docs ==
    {StackDoc(s) : s \in StackShapes} \cup {NameDoc(s) : s \in NameShapes}
        \cup {FlatDoc(s) : s \in FlatShapes}
        \cup SwitchDocs \cup RationaleDocs \cup RenderDocs
        \cup {ScenarioA, ScenarioB, ScenarioC} \cup OtherDocs

DocInit == doc \in Docs /\ InitLocals /\ InParse

\* the loop ends when doc.paragraphs is exhausted
EndOfDoc == nread = Len(doc) /\ EndOfInput

DocNext ==
    \/ NextOfDoc
    \/ Blank
    \/ SwitchTriple
    \/ SwitchDouble
    \/ SwitchBogo
    \/ SwitchCoupons
    \/ FieldLabel
    \/ ListItem
    \/ WhyText
    \/ NewDeal
    \/ CategoryHeader
    \/ FlatItem
    \/ FlatItemKeyError
    \/ Ignored
    \/ EndOfDoc

DocSpec == DocInit /\ [][DocNext]_vars

(***************************************************************************)
(* generate_html, as far as the rows of the flat deals go: each item of    *)
(* each category of bogo and of coupons is split on the em-dash into a     *)
(* title and the details.                                                  *)
(***************************************************************************)
\* str.split(sep) for a separator of one character
RECURSIVE Split(_, _)
Split(t, sep) ==
    IF \E i \in 1..Len(t) : t[i] = sep
    THEN LET i == CHOOSE i \in 1..Len(t) : t[i] = sep /\ \A j \in 1..(i - 1) : t[j] # sep
         IN <<SubSeq(t, 1, i - 1)>> \o Split(SubSeq(t, i + 1, Len(t)), sep)
    ELSE <<t>>

\* sep.join(parts)
RECURSIVE Join(_, _)
Join(parts, sep) ==
    IF parts = <<>> THEN <<>>
    ELSE IF Len(parts) = 1 THEN parts[1]
    ELSE parts[1] \o sep \o Join(Tail(parts), sep)

\* name = parts[0].strip() if parts else item
RowName(item) ==
    LET parts == Split(item, EmDash) IN
    IF parts # <<>> THEN Strip(parts[1]) ELSE item


\* RowDetails keeping the second part only.
RowDetailsSecondPartOnly(item) ==
    LET parts == Split(item, EmDash) IN
    IF Len(parts) > 1 THEN Strip(parts[2]) ELSE <<>>

\* details = ' <em-dash> '.join(parts[1:]).strip() if len(parts) > 1 else ''
RowDetails(item) ==
    LET parts == Split(item, EmDash) IN
    IF Len(parts) > 1 THEN Strip(Join(Tail(parts), <<" ", EmDash, " ">>)) ELSE <<>>

\* The rows of one category, and of a mapping: the categories in order, those
\* without items skipped, each item a row.
CategoryRows(category, items) ==
    [i \in 1..Len(items) |->
        [category |-> category, name |-> RowName(items[i]),
         details |-> RowDetails(items[i]), copy_text |-> items[i]]]

RECURSIVE Rows(_)
Rows(mapping) ==
    IF mapping = <<>> THEN <<>>
    ELSE CategoryRows(Head(mapping).k, Head(mapping).v) \o Rows(Tail(mapping))

GeneratedHtml(c) ==
    [rendered |-> TRUE, bogo_rows |-> Rows(c.bogo_deals),
     coupon_rows |-> Rows(c.digital_coupons)]

(***************************************************************************)
(* main().  main_pc = "start": at its first line; "parse": in the call of  *)
(* parse_document; "write_html", "write_css", "write_js": before the       *)
(* matching open(); "no_document": returned early; "returned": returned.   *)
(* An exception of parse_document (pc = "raised") is not caught by main.   *)
(***************************************************************************)
MainInit ==
    /\ doc \in Docs
    /\ docx_exists \in BOOLEAN
    /\ main_pc = "start"
    /\ html = NoHtml
    /\ io = <<>>
    /\ pc = "idle"
    /\ nread = 0
    /\ text = <<>>
    /\ content = [triple_stacks |-> <<>>, double_stacks |-> <<>>,
                  bogo_deals |-> <<>>, digital_coupons |-> <<>>]
    /\ heap = <<>>
    /\ current_section = "None"
    /\ current_category = NoCategory
    /\ current_deal = NoDeal
    /\ current_field = "None"

\* if not DOCX_PATH.exists(): ... return
MissingDocument ==
    /\ main_pc = "start"
    /\ ~docx_exists
    /\ main_pc' = "no_document"
    /\ UNCHANGED <<doc, pc, nread, text, content, heap, current_section,
                   current_category, current_deal, current_field,
                   docx_exists, html, io>>

\* content = parse_document(): the document is opened, the locals are set
CallParse ==
    /\ main_pc = "start"
    /\ docx_exists
    /\ main_pc' = "parse"
    /\ io' = Append(io, ReadDocx)
    /\ pc' = "loop"
    /\ nread' = 0
    /\ text' = <<>>
    /\ content' = [triple_stacks |-> <<>>, double_stacks |-> <<>>,
                   bogo_deals |-> <<>>, digital_coupons |-> <<>>]
    /\ heap' = <<>>
    /\ current_section' = "None"
    /\ current_category' = NoCategory
    /\ current_deal' = NoDeal
    /\ current_field' = "None"
    /\ UNCHANGED <<doc, docx_exists, html>>

\* html = generate_html(content), once parse_document has returned
GenerateHtml ==
    /\ main_pc = "parse"
    /\ pc = "done"
    /\ html' = GeneratedHtml(content)
    /\ main_pc' = "write_html"
    /\ UNCHANGED <<doc, pc, nread, text, content, heap, current_section,
                   current_category, current_deal, current_field,
                   docx_exists, io>>

\* with open(path, 'w') as f: f.write(...)
WriteFile(at, file, then) ==
    /\ main_pc = at
    /\ io' = Append(io, file)
    /\ main_pc' = then
    /\ UNCHANGED <<doc, pc, nread, text, content, heap, current_section,
                   current_category, current_deal, current_field,
                   docx_exists, html>>


\* WriteHtml done before the parse, right after the test for the document.
WriteHtmlBeforeParse ==
    /\ main_pc = "start"
    /\ io = <<>>
    /\ io' = Append(io, WriteHtmlFile)
    /\ UNCHANGED <<doc, pc, nread, text, content, heap, current_section,
                   current_category, current_deal, current_field,
                   docx_exists, main_pc, html>>

WriteHtml == WriteFile("write_html", WriteHtmlFile, "write_css")

WriteCss == WriteFile("write_css", WriteCssFile, "write_js")

WriteJs == WriteFile("write_js", WriteJsFile, "returned")

MainNext ==
    \/ MissingDocument
    \/ CallParse
    \/ NextOfDoc
    \/ Blank
    \/ SwitchTriple
    \/ SwitchDouble
    \/ SwitchBogo
    \/ SwitchCoupons
    \/ FieldLabel
    \/ ListItem
    \/ WhyText
    \/ NewDeal
    \/ CategoryHeader
    \/ FlatItem
    \/ FlatItemKeyError
    \/ Ignored
    \/ EndOfDoc
    \/ GenerateHtml
    \/ WriteHtml
    \/ WriteCss
    \/ WriteJs

MainSpec == MainInit /\ [][MainNext]_vars


(***************************************************************************)
(* Properties.                                                             *)
(***************************************************************************)
SectionTokens == {"TRIPLE STACKS", "DOUBLE STACKS", "BOGO DEALS", "DIGITAL COUPONS"}

\* The deals of the catalog, triple then double.
Flushed == content.triple_stacks \o content.double_stacks

IsPrefix(a, b) == Len(a) <= Len(b) /\ SubSeq(b, 1, Len(a)) = a

ParserStateUnchanged ==
    UNCHANGED <<content, heap, current_section, current_category,
                current_deal, current_field>>

\* C1: the parse never raises, whatever the paragraphs.
C1_NeverRaises == pc # "raised"

\* C2: a section switch (to any of the four sections) taken in Triple or
\* Double with a deal in progress appends that deal to the prior section's
\* list and clears current_deal.
C2_SwitchFlushes ==
    [][(/\ pc = "body"
        /\ Branch(text) \in SectionTokens
        /\ current_section \in StackSections
        /\ current_deal # NoDeal)
       => (/\ content'[current_section] = Append(content[current_section], current_deal)
           /\ current_deal' = NoDeal)]_vars

\* C3: when the input ends in Triple or Double with a deal in progress, the
\* end-of-input flush appends that deal as the last element of the active
\* section's list and leaves the rest of the catalog as it was.
C3_EndOfInputFlush ==
    [][(/\ pc = "loop"
        /\ pc' = "done"
        /\ current_section \in StackSections
        /\ current_deal # NoDeal)
       => content' = [content EXCEPT ![current_section] = Append(@, current_deal)]]_vars

\* the input ended right after a list item of the deal in progress
C3_Witness ==
    /\ pc = "done"
    /\ current_section \in StackSections
    /\ current_deal # NoDeal
    /\ StartsWith(text, <<"-">>)
    /\ heap[current_deal].sale = <<StackItemText(text)>>
    /\ content[current_section][Len(content[current_section])] = current_deal

\* C4: the last deal started by a name-line is in the triple or double list
\* of the returned catalog.
C4_LastDealKept ==
    (pc = "done" /\ heap # <<>>)
        => \E i \in 1..Len(Flushed) : Flushed[i] = Len(heap)

\* C5: no deal occurs twice in the triple and double lists combined.
C5_NoDealFlushedTwice ==
    \A i, j \in 1..Len(Flushed) : i # j => Flushed[i] # Flushed[j]

\* one deal flushed by a section switch, a later one by the end of input
C5_Witness ==
    /\ pc = "done"
    /\ content.triple_stacks # <<>>
    /\ content.double_stacks # <<>>
    /\ current_deal # NoDeal

\* C6: the deals of the triple list, and of the double list, are in the order
\* in which their name-lines were read (the order of creation).
C6_DealOrderKept ==
    \A s \in StackSections :
        \A i, j \in 1..Len(content[s]) : i < j => content[s][i] < content[s][j]

C6_Witness ==
    /\ pc = "done"
    /\ \E s \in StackSections : Len(content[s]) >= 2

\* C7: in bogo and in coupons every step keeps the categories already there
\* in their places and keeps each one's items as a prefix of its items after
\* the step (new categories and new items go to the end), no category is
\* there twice, and a header of a category already seen only selects it.
C7_FlatOrderKept ==
    [][/\ \A s \in FlatSections :
            /\ Len(content[s]) <= Len(content'[s])
            /\ \A i \in 1..Len(content[s]) :
                  /\ content'[s][i].k = content[s][i].k
                  /\ IsPrefix(content[s][i].v, content'[s][i].v)
            /\ \A i, j \in 1..Len(content'[s]) :
                  i # j => content'[s][i].k # content'[s][j].k
       /\ (/\ pc = "body"
           /\ Branch(text) = "category"
           /\ HasKey(content[current_section], text))
          => (content' = content /\ current_category' = text)]_vars

\* the first of two categories, holding an item, has just been selected again
C7_Witness ==
    /\ pc = "loop"
    /\ current_section \in FlatSections
    /\ Len(content[current_section]) >= 2
    /\ content[current_section][1].k = text
    /\ content[current_section][1].v # <<>>
    /\ current_category = text

IsMarked(t) ==
    \/ StartsWith(t, <<"-">>)
    \/ StartsWith(t, <<EnDash>>)
    \/ StartsWith(t, <<Bullet>>)

\* C8: in Triple or Double, a line beginning with a hyphen, an en-dash or a
\* bullet that arrives when no deal is in progress is dropped: nothing is
\* created or appended, the parser state is unchanged, nothing is raised.
C8_ItemWithoutDealDropped ==
    [][(/\ pc = "body"
        /\ current_section \in StackSections
        /\ current_deal = NoDeal
        /\ IsMarked(text)
        /\ Branch(text) \notin SectionTokens)
       => (ParserStateUnchanged /\ pc' = "loop")]_vars

\* C9: in Bogo or Coupons, a hyphen-marked line that arrives while
\* current_category is None is dropped: no category is registered, no list
\* changes, nothing is raised.
C9_ItemWithoutCategoryDropped ==
    [][(/\ pc = "body"
        /\ current_section \in FlatSections
        /\ current_category = NoCategory
        /\ StartsWith(text, <<"-">>)
        /\ Branch(text) \notin SectionTokens)
       => (ParserStateUnchanged /\ pc' = "loop")]_vars

C9_Witness ==
    /\ pc = "loop"
    /\ current_section \in FlatSections
    /\ current_category = NoCategory
    /\ StartsWith(text, <<"-">>)

\* C10: current_deal is non-null only while current_section is Triple or
\* Double.
C10_DealOnlyInStackSection ==
    current_deal # NoDeal => current_section \in StackSections

\* C11: a deal that is in the triple or double list is never changed by a
\* later paragraph, and those lists change only in a step that reads a
\* section header, that starts a new deal from a name-line, or that ends the
\* input.
C11_AppendedDealsFrozen ==
    [][/\ \A i \in 1..Len(Flushed) : heap'[Flushed[i]] = heap[Flushed[i]]
       /\ (\E s \in StackSections : content'[s] # content[s])
          => \/ pc = "body" /\ Branch(text) \in SectionTokens
             \/ /\ pc = "body"
                /\ Len(heap') = Len(heap) + 1
                /\ heap'[Len(heap')].name = text
             \/ pc = "loop" /\ pc' = "done"]_vars

\* one deal is in a list and an item has just been added to the next one
C11_Witness ==
    /\ pc = "loop"
    /\ Flushed # <<>>
    /\ current_deal # NoDeal
    /\ \A i \in 1..Len(Flushed) : Flushed[i] # current_deal
    /\ StartsWith(text, <<"-">>)
    /\ heap[current_deal].sale = <<StackItemText(text)>>

\* C12: the walk terminates with the catalog returned: in every state either
\* the parse has returned or it can take its next step.
C12_WalkReachesReturn == pc = "done" \/ ENABLED Next

IsSectionHeader(t) ==
    \/ Contains(Upper(t), TRIPLE_STACKS)
    \/ Contains(Upper(t), DOUBLE_STACKS)
    \/ Contains(Upper(t), BOGO_DEALS)
    \/ Contains(Upper(t), DIGITAL_COUPONS) /\ ~EndsWith(t, <<":">>)

IsFieldLabel(t) ==
    \/ t = LabelSale
    \/ t = LabelBuy
    \/ t = LabelWhy
    \/ StartsWith(t, LabelCoupon)

EmptyDeal(n) ==
    [name |-> n, sale |-> <<>>, coupons |-> <<>>, buy |-> <<>>, why |-> <<>>]

EmptyCatalog ==
    [triple_stacks |-> <<>>, double_stacks |-> <<>>,
     bogo_deals |-> <<>>, digital_coupons |-> <<>>]

\* C14 (under DocSpec): a document made of a section header, a name-line,
\* the labels of some fields each followed by its items as hyphen-marked
\* lines, 'Why this works:' and an unmarked line parses to one deal, in the
\* list of its section: its name is the name-line, each labelled field holds
\* its items in order, each unlabelled field is empty, why is the unmarked
\* line.  Scenario A gives one Triple deal 'Cereal Combo' with sale
\* ['Cereal $2'], coupons [], buy ['2 Cereal'], why 'Stacks with coupon',
\* and no Double deal.
C14_LabelledDealParsed ==
    pc = "done" =>
      /\ \A s \in StackShapes :
            doc = StackDoc(s) =>
              /\ heap = <<[name |-> s.name, sale |-> s.sale, coupons |-> s.coupons,
                           buy |-> s.buy, why |-> s.why]>>
              /\ content = [EmptyCatalog EXCEPT ![s.section] = <<1>>]
      /\ doc = ScenarioA =>
              /\ heap = <<[name |-> TextCerealCombo, sale |-> <<TextCereal2>>,
                           coupons |-> <<>>, buy |-> <<Text2Cereal>>,
                           why |-> TextStacksWithCoupon]>>
              /\ content.triple_stacks = <<1>>
              /\ content.double_stacks = <<>>

\* scenario A, one of the documents of that shape, has been parsed
C14_Witness ==
    /\ pc = "done"
    /\ doc = ScenarioA
    /\ \E s \in StackShapes : doc = StackDoc(s)
    /\ nread = 8
    /\ heap[1].why = TextStacksWithCoupon

\* C15 (under DocSpec): a section header followed only by name-lines gives
\* one deal per name-line, in the order of the lines, each with empty sale,
\* coupons and buy and empty why, all in the list of that section; scenario C
\* gives the two Triple deals 'Deal A' then 'Deal B'.
C15_ConsecutiveNames ==
    /\ pc = "done" =>
         /\ \A s \in NameShapes :
               doc = NameDoc(s) =>
                 /\ heap = [i \in 1..Len(s.names) |-> EmptyDeal(s.names[i])]
                 /\ content = [EmptyCatalog EXCEPT
                                 ![s.section] = [i \in 1..Len(s.names) |-> i]]
         /\ doc = ScenarioC =>
                 /\ heap = <<EmptyDeal(TextDealA), EmptyDeal(TextDealB)>>
                 /\ content = [EmptyCatalog EXCEPT !.triple_stacks = <<1, 2>>]
    \* the earlier deal is flushed when the later name-line is read
    /\ \A s \in NameShapes :
          (doc = NameDoc(s) /\ pc = "loop" /\ nread >= 1)
            => content[s.section] = [i \in 1..(nread - 2) |-> i]

C15_Witness ==
    /\ pc = "done"
    /\ doc = ScenarioC
    /\ \E s \in NameShapes : doc = NameDoc(s)
    /\ Len(heap) = 2

\* C16 (under DocSpec): in a Bogo or Coupons section, the hyphen-marked lines
\* that follow a category header are stored, marker stripped and otherwise
\* whole, in input order in that category's list, also when they hold $, an
\* em-dash, Save, Buy or Free; scenario B gives bogo = {Snacks: [the line]}
\* and nothing else.
C16_FlatLinesStoredWhole ==
    pc = "done" =>
      /\ \A s \in FlatShapes :
            doc = FlatDoc(s) =>
              /\ heap = <<>>
              /\ content = [EmptyCatalog EXCEPT ![s.section] =
                    <<[k |-> TextSnacks, v |-> s.snacks]>>
                      \o (IF s.two THEN <<[k |-> TextDairy, v |-> s.dairy]>> ELSE <<>>)]
      /\ doc = ScenarioB =>
              content = [EmptyCatalog EXCEPT !.bogo_deals =
                            <<[k |-> TextSnacks, v |-> <<TextChips>>]>>]

C16_Witness ==
    /\ pc = "done"
    /\ doc = ScenarioB
    /\ \E s \in FlatShapes : doc = FlatDoc(s)
    /\ \A c \in Sentinels : Contains(content.bogo_deals[1].v[1], c)

\* C17: a category header that is not yet in its section's mapping is put
\* there, last, with an empty list in the step that reads it, and a section
\* header read afterwards leaves both mappings as they are and raises nothing.
C17_CategoryRegisteredAtHeader ==
    [][/\ (/\ pc = "body"
           /\ text # <<>>
           /\ current_section \in FlatSections
           /\ ~IsSectionHeader(text)
           /\ IsCategoryHeader(text)
           /\ ~HasKey(content[current_section], text))
          => content' = [content EXCEPT ![current_section] =
                             Append(@, [k |-> text, v |-> <<>>])]
       /\ (pc = "body" /\ IsSectionHeader(text))
          => /\ pc' = "loop"
             /\ content'.bogo_deals = content.bogo_deals
             /\ content'.digital_coupons = content.digital_coupons]_vars

\* a section header has just been read right after a category header: the
\* category is the last of the section left, with no items
C17_Witness ==
    /\ pc = "loop"
    /\ IsSectionHeader(text)
    /\ nread = 3
    /\ current_category # NoCategory
    /\ \E s \in FlatSections :
          /\ content[s] = <<[k |-> current_category, v |-> <<>>]>>
          /\ current_section # s

\* C18: every deal of the triple and double lists has a non-empty name.
C18_DealNamesNonEmpty ==
    \A i \in 1..Len(Flushed) : heap[Flushed[i]].name # <<>>

\* a blank paragraph was the last one of a Triple or Double section
C18_Witness ==
    /\ pc = "done"
    /\ text = <<>>
    /\ current_section \in StackSections
    /\ Flushed # <<>>

C20_Case ==
    /\ pc = "body"
    /\ text # <<>>
    /\ current_section \in StackSections
    /\ ~IsSectionHeader(text)
    /\ ~IsFieldLabel(text)
    /\ ~(IsMarked(text) /\ current_deal # NoDeal /\ current_field # "None")
    /\ current_field # "why"

C20_NewDealStarted ==
    /\ content' = IF current_deal # NoDeal
                  THEN [content EXCEPT ![current_section] = Append(@, current_deal)]
                  ELSE content
    /\ heap' = Append(heap, EmptyDeal(text))
    /\ current_deal' = Len(heap) + 1

\* C20 as claimed: every such line, marker-led or not, flushes the deal in
\* progress and starts a new deal named by the line.
C20_AnyLineStartsDeal == [][C20_Case => C20_NewDealStarted]_vars

\* C20: every such line that does not begin with a hyphen (unmarked, or led
\* by an en-dash or a bullet) flushes the deal in progress, if any, into the
\* current section's list and starts a new deal named by the line, all
\* fields empty; one that begins with a hyphen changes nothing.
C20_NonHyphenLineStartsDeal ==
    [][C20_Case =>
         IF StartsWith(text, <<"-">>)
         THEN ParserStateUnchanged
         ELSE C20_NewDealStarted]_vars

\* a bullet line has flushed a deal and become the name of the next one
C20_Witness ==
    /\ pc = "loop"
    /\ current_section \in StackSections
    /\ StartsWith(text, <<Bullet>>)
    /\ current_deal = 2
    /\ heap[2] = EmptyDeal(text)
    /\ content[current_section] = <<1>>

\* The marker of a list line taken off, and the blanks around the rest.
Unmarked(t) == Strip(LStrip(t, {"-", EnDash, Bullet, " "}))

\* C21: in Bogo or Coupons with a category selected, a line that begins with
\* a hyphen, an en-dash or a bullet is appended, marker stripped, to the end
\* of that category's list in the current section.
C21_MarkedLineAppended ==
    [][(/\ pc = "body"
        /\ current_section \in FlatSections
        /\ current_category # NoCategory
        /\ IsMarked(text)
        /\ ~IsSectionHeader(text))
       => (/\ pc' = "loop"
           /\ HasKey(content[current_section], current_category)
           /\ content' = [content EXCEPT ![current_section] =
                              AppendItem(@, current_category, Unmarked(text))])]_vars

\* C22: in Bogo or Coupons, a line that begins with a hyphen, an en-dash or
\* a bullet, or has 50 characters or more, or holds $, an em-dash, Save, Buy
\* or Free, neither changes current_category nor registers a category.
C22_OnlyHeadersSelectCategory ==
    [][(/\ pc = "body"
        /\ text # <<>>
        /\ current_section \in FlatSections
        /\ ~IsSectionHeader(text)
        /\ \/ IsMarked(text)
           \/ Len(text) >= CategoryMaxLen
           \/ \E c \in Sentinels : Contains(text, c))
       => (/\ current_category' = current_category
           /\ \A s \in FlatSections :
                 [i \in 1..Len(content'[s]) |-> content'[s][i].k]
                     = [i \in 1..Len(content[s]) |-> content[s][i].k])]_vars

\* C23: whenever current_section is Bogo or Coupons and current_category is
\* not None, current_category is a key of that section's mapping.
C23_CategoryRegisteredInSection ==
    (current_section \in FlatSections /\ current_category # NoCategory)
        => HasKey(content[current_section], current_category)

\* The section a header line switches to (the first token found wins).
SectionOfHeader(t) ==
    IF Contains(Upper(t), TRIPLE_STACKS) THEN "triple_stacks"
    ELSE IF Contains(Upper(t), DOUBLE_STACKS) THEN "double_stacks"
    ELSE IF Contains(Upper(t), BOGO_DEALS) THEN "bogo_deals"
    ELSE "digital_coupons"

\* current_section as paragraph k of the document is read: the section of
\* the last header before it.
SectionAt(k) ==
    LET hs == {j \in 1..(k - 1) : IsSectionHeader(Strip(doc[j]))} IN
    IF hs = {} THEN "None"
    ELSE SectionOfHeader(Strip(doc[CHOOSE j \in hs : \A i \in hs : i <= j]))

\* C24 (under DocSpec): every deal of the triple list bears the name of a
\* line of the document read while current_section was Triple, and every
\* deal of the double list that of a line read while it was Double.
C24_DealInSectionOfItsName ==
    \A s \in StackSections :
        \A i \in 1..Len(content[s]) :
            \E k \in 1..nread :
                /\ Strip(doc[k]) = heap[content[s][i]].name
                /\ SectionAt(k) = s

\* The paragraph read before the one in text has just set the rationale of
\* the deal in progress: as a marked line (an item under the why focus, which
\* stays) or as an unmarked line (which clears the focus).
RationaleJustCaptured ==
    /\ nread >= 2
    /\ current_section \in StackSections
    /\ current_deal # NoDeal
    /\ LET prev == Strip(doc[nread - 1]) IN
         /\ prev # <<>>
         /\ ~IsSectionHeader(prev)
         /\ ~IsFieldLabel(prev)
         /\ \/ /\ IsMarked(prev)
               /\ current_field = "why"
               /\ heap[current_deal].why = Unmarked(prev)
            \/ /\ ~IsMarked(prev)
               /\ current_field = "None"
               /\ heap[current_deal].why = prev

\* C25 (under DocSpec): right after the rationale of a deal has been set, by
\* an unmarked line or by a marked line under 'Why this works:', an unmarked
\* line that is no label and no section header starts a new deal, and the
\* deals there were, the rationale among them, stay as they are.
C25_NameAfterRationale ==
    [][(/\ pc = "body"
        /\ RationaleJustCaptured
        /\ text # <<>>
        /\ ~IsMarked(text)
        /\ ~IsFieldLabel(text)
        /\ ~IsSectionHeader(text))
       => (/\ heap' = Append(heap, EmptyDeal(text))
           /\ current_deal' = Len(heap) + 1)]_vars

\* C26: in Triple or Double, an unmarked line that is no section header and
\* no field label is never dropped: it becomes the rationale of the deal in
\* progress or it starts a new deal.
C26_UnmarkedLineKept ==
    [][(/\ pc = "body"
        /\ text # <<>>
        /\ current_section \in StackSections
        /\ ~IsSectionHeader(text)
        /\ ~IsFieldLabel(text)
        /\ ~IsMarked(text))
       => (\/ /\ current_deal # NoDeal
              /\ heap' = [heap EXCEPT ![current_deal].why = text]
           \/ /\ heap' = Append(heap, EmptyDeal(text))
              /\ current_deal' = Len(heap) + 1)]_vars

\* C27: in Triple or Double with a deal in progress, a line that begins with
\* a hyphen, an en-dash or a bullet and holds no section token goes, marker
\* and blanks stripped, to the deal in progress and changes nothing else:
\* under the focus sale, coupons or buy it is appended to the end of that
\* list; under the focus why it replaces the rationale.  The focus, the
\* other fields, the other deals and the catalog stay as they are.
C27_ListItemFrame ==
    [][(/\ pc = "body"
        /\ current_section \in StackSections
        /\ current_deal # NoDeal
        /\ current_field # "None"
        /\ IsMarked(text)
        /\ ~IsSectionHeader(text))
       => (/\ pc' = "loop"
           /\ heap' = IF current_field = "why"
                      THEN [heap EXCEPT ![current_deal].why = Unmarked(text)]
                      ELSE [heap EXCEPT ![current_deal][current_field] =
                                            Append(@, Unmarked(text))]
           /\ UNCHANGED <<content, current_section, current_category,
                          current_deal, current_field>>)]_vars

\* an en-dash line has been appended after a first item of the sale list
C27_Witness ==
    /\ pc = "loop"
    /\ current_section \in StackSections
    /\ current_deal # NoDeal
    /\ current_field = "sale"
    /\ StartsWith(text, <<EnDash>>)
    /\ Len(heap[current_deal].sale) = 2
    /\ heap[current_deal].sale[2] = Unmarked(text)
    /\ heap[current_deal].sale[2] # text

\* C28 (under DocSpec): a paragraph whose upper-cased text holds TRIPLE
\* STACKS, DOUBLE STACKS or BOGO DEALS is a section switch whatever the state
\* of the parser: current_section becomes the section of the first of the
\* three tokens, in that order, that the text holds; current_field becomes
\* None; no deal is created or changed, no category is selected or
\* registered, no item is stored (the only change of the catalog is the
\* flush of the deal in progress into its section's list).
C28_SectionTokenSwitches ==
    [][(/\ pc = "body"
        /\ \/ Contains(Upper(text), TRIPLE_STACKS)
           \/ Contains(Upper(text), DOUBLE_STACKS)
           \/ Contains(Upper(text), BOGO_DEALS))
       => (/\ pc' = "loop"
           /\ current_section' =
                 IF Contains(Upper(text), TRIPLE_STACKS) THEN "triple_stacks"
                 ELSE IF Contains(Upper(text), DOUBLE_STACKS) THEN "double_stacks"
                 ELSE "bogo_deals"
           /\ current_field' = "None"
           /\ heap' = heap
           /\ current_category' = current_category
           /\ content'.bogo_deals = content.bogo_deals
           /\ content'.digital_coupons = content.digital_coupons
           /\ \A s \in StackSections :
                 \/ content'[s] = content[s]
                 \/ /\ current_deal # NoDeal
                    /\ s = current_section
                    /\ content'[s] = Append(content[s], current_deal))]_vars

\* a line holding DOUBLE STACKS then TRIPLE STACKS, read in Double under the
\* why focus with a deal in progress, has switched to Triple
C28_Witness ==
    /\ pc = "loop"
    /\ text = TextDoubleTriple
    /\ current_section = "triple_stacks"
    /\ current_field = "None"
    /\ current_deal = NoDeal
    /\ content.double_stacks = <<1>>
    /\ heap[1].why # <<>>

\* C29: a paragraph that holds DIGITAL COUPONS, in any case, and none of the
\* three tokens tested before it, switches the section to Coupons if it does
\* not end with ':'; if it ends with ':' it leaves current_section as it is
\* and, in Triple or Double when it begins with 'Digital Coupon', it sets
\* the field focus to coupons.
C29_CouponsHeaderNeedsNoColon ==
    [][(/\ pc = "body"
        /\ Contains(Upper(text), DIGITAL_COUPONS)
        /\ ~Contains(Upper(text), TRIPLE_STACKS)
        /\ ~Contains(Upper(text), DOUBLE_STACKS)
        /\ ~Contains(Upper(text), BOGO_DEALS))
       => IF ~EndsWith(text, <<":">>)
          THEN current_section' = "digital_coupons"
          ELSE /\ current_section' = current_section
               /\ (current_section \in StackSections /\ StartsWith(text, LabelCoupon))
                     => current_field' = "coupons"]_vars

\* after a Coupons section with a category, 'Digital Coupons:' has been read
\* in Triple or Double with a deal in progress
C29_Witness ==
    /\ pc = "loop"
    /\ text = Strip(ParaCouponLabel)
    /\ EndsWith(text, <<":">>)
    /\ current_section \in StackSections
    /\ current_field = "coupons"
    /\ current_deal # NoDeal
    /\ content.digital_coupons # <<>>

\* C30: in Triple or Double, a line the parser takes as a field label
\* ('Sale:', 'Buy:', 'Why this works:' exactly, or a text beginning with
\* 'Digital Coupon'; no section header) sets current_field to the field of
\* the label and changes nothing else, with or without a deal in progress.
C30_FieldLabelFrame ==
    [][(/\ pc = "body"
        /\ current_section \in StackSections
        /\ ~IsSectionHeader(text)
        /\ IsFieldLabel(text))
       => (/\ pc' = "loop"
           /\ current_field' = IF text = LabelSale THEN "sale"
                               ELSE IF StartsWith(text, LabelCoupon) THEN "coupons"
                               ELSE IF text = LabelBuy THEN "buy"
                               ELSE "why"
           /\ UNCHANGED <<content, heap, current_section, current_category,
                          current_deal>>)]_vars

\* 'Buy:' has been read with a deal in progress that holds a sale item
C30_Witness ==
    /\ pc = "loop"
    /\ text = LabelBuy
    /\ current_section \in StackSections
    /\ current_field = "buy"
    /\ current_deal # NoDeal
    /\ heap[current_deal].sale # <<>>
    /\ Flushed = <<>>

\* C31: current_field is not None only while current_section is Triple or
\* Double; every section switch leaves it None, and no step taken while
\* current_section is None, Bogo or Coupons sets it.
C31_FieldOnlyInStackSection ==
    /\ current_field # "None" => current_section \in StackSections
    /\ (pc = "loop" /\ nread > 0 /\ IsSectionHeader(text)) => current_field = "None"

\* a switch to Bogo or Coupons has been read while a field of the deal in
\* progress, which holds an item, was focused
C31_Witness ==
    /\ pc = "loop"
    /\ IsSectionHeader(text)
    /\ current_section \in FlatSections
    /\ current_field = "None"
    /\ heap # <<>>
    /\ heap[Len(heap)].sale # <<>>

\* The rows generate_html has made of the flat deals, bogo then coupons.
FlatRows == html.bogo_rows \o html.coupon_rows

\* Part i of a line split on the em-dash, trimmed; the empty string when the
\* line has fewer parts.
SubField(item, i) ==
    LET parts == Split(item, EmDash) IN
    IF i <= Len(parts) THEN Strip(parts[i]) ELSE <<>>

RECURSIVE Spaced(_)
Spaced(t) ==
    IF t = <<>> THEN <<>>
    ELSE (IF Head(t) = EmDash THEN <<" ", EmDash, " ">> ELSE <<Head(t)>>)
             \o Spaced(Tail(t))

\* The items of a mapping, category after category.
RECURSIVE Items(_)
Items(mapping) ==
    IF mapping = <<>> THEN <<>> ELSE Head(mapping).v \o Items(Tail(mapping))

DashAt(item) == {i \in 1..Len(item) : item[i] = EmDash}

FirstDash(item) == CHOOSE i \in DashAt(item) : \A j \in DashAt(item) : i <= j

TextChipsDetails ==
    <<"B","u","y"," ","1"," ","G","e","t"," ","1"," ","F","r","e","e"," "," ",
      EmDash," "," ","S","a","v","e"," ","$","3",".","0","0"," "," ",EmDash,
      " "," ","V","a","l","i","d"," ","1","/","1","-","1","/","7">>

OutputWrites == {WriteHtmlFile, WriteCssFile, WriteJsFile}

Written == {i \in 1..Len(io) : io[i] \in OutputWrites}

\* C33 (under MainSpec): an output file is written only when the document
\* exists and parse_document and generate_html have returned; when the
\* document is missing or the parse has raised, no output file has been
\* written; the read of the document comes before every write.
C33_WritesOnlyAfterParse ==
    /\ Written # {} => (docx_exists /\ pc = "done" /\ html.rendered)
    /\ (~docx_exists \/ main_pc = "no_document" \/ pc = "raised") => Written = {}
    /\ \A i \in Written : \E j \in 1..(i - 1) : io[j] = ReadDocx

\* main has returned after the read and the three writes
C33_Witness ==
    /\ main_pc = "returned"
    /\ io = <<ReadDocx, WriteHtmlFile, WriteCssFile, WriteJsFile>>
    /\ content.bogo_deals # <<>>

====
